---- MODULE Spec2Model ----
(***************************************************************************)
(* Connection and dispatch engine of the Birdactyl Go plugin SDK.          *)
(*                                                                         *)
(* The model follows one Plugin value: the builder calls that fill its     *)
(* handler registry, Plugin.Start (dial, registration, handshake, start    *)
(* hook, receive loop) and Plugin.handleMessage with the five dispatchers. *)
(* Strings the code takes apart or concatenates (HTTP methods, paths,      *)
(* route keys, schedule ids and keys) are sequences of one-character       *)
(* strings; strings the code only compares are TLA+ strings.               *)
(***************************************************************************)
EXTENDS Integers, Sequences, FiniteSets

VARIABLES
    pc,          \* position of Start: build, handshake, connected, hook, loop, handling, returned, exited
    events,      \* Plugin.events: event type -> handler
    routes,      \* Plugin.routes: method+":"+path -> RouteConfig
    schedule,    \* Plugin.schedule: id+":"+cron -> handler
    mixins,      \* Plugin.mixins: sequence of MixinRegistration
    addonTypes,  \* Plugin.addonTypes: type id -> handler
    onStart,     \* Plugin.onStart: handler or NoHandler
    nreg,        \* number of builder calls made so far (names the handler values)
    hs,          \* msg, err of the registration-time stream.Recv (Start, line 363)
    msg,         \* msg of the receive loop's last stream.Recv (Start, line 379)
    err,         \* err of the receive loop's last stream.Recv
    out,         \* envelopes written with stream.Send since the last stream.Recv
    calls,       \* handlers invoked since the last stream.Recv, in order
    rets,        \* what those handlers returned, in the same order
    hookRuns,    \* number of times the start hook was called
    result,      \* what Start returned: "running" while it has not
    mp,          \* arguments and result of a stand-alone matchPath call
    pending,     \* Plugin.pending: correlation id -> the caller holding its channel
    waiting      \* caller of an outbound call -> what its channel yielded so far

vars == <<pc, events, routes, schedule, mixins, addonTypes, onStart, nreg,
          hs, msg, err, out, calls, rets, hookRuns, result, mp, pending, waiting>>

registry == <<events, routes, schedule, mixins, addonTypes, onStart, nreg>>

(***************************************************************************)
(* Bounds of the exploration.                                              *)
(***************************************************************************)
MaxRegs == 2
MaxLen == 3

Nil == "nil"
NoHandler == 0
NoMsg == [kind |-> "none"]
EmptyMap == [k \in {} |-> Nil]

Put(m, k, v) == [x \in (DOMAIN m) \cup {k} |-> IF x = k THEN v ELSE m[x]]
Range(f) == {f[x] : x \in DOMAIN f}

(***************************************************************************)
(* Strings as character sequences.                                         *)
(***************************************************************************)
GET == <<"G", "E", "T">>
POST == <<"P", "O", "S", "T">>
DELETE == <<"D", "E", "L", "E", "T", "E">>
STAR == <<"*">>
COLON == <<":">>
pItems == <<"/", "i", "t", "e", "m", "s">>
pItemsAll == pItems \o <<"/", "*">>
pItems42 == pItems \o <<"/", "4", "2">>
apiAll == <<"/", "a", "p", "i", "/", "*">>
apiRoot == <<"/", "a", "p", "i", "/">>
apiX == <<"/", "a", "p", "i", "/", "x">>
apiXY == <<"/", "a", "p", "i", "/", "x", "/", "y">>
apShort == <<"/", "a", "p">>

Alphabet == {"/", "a", "*"}
RECURSIVE StrsOfLen(_)
StrsOfLen(n) ==
    IF n = 0 THEN {<<>>}
    ELSE {Append(s, c) : s \in StrsOfLen(n - 1), c \in Alphabet}
Strs == UNION {StrsOfLen(n) : n \in 0..MaxLen}
Examples == {apiAll, apiRoot, apiX, apiXY, apShort}

(***************************************************************************)
(* Inputs of the builder calls and of the panel.                           *)
(***************************************************************************)
RouteMethods == {GET, POST, STAR}
RoutePaths == {pItems, pItemsAll, pItems42}
ReqMethods == {GET, POST, DELETE}
ReqPaths == {pItems, pItems42}
EventTypes == {"e1"}
ReqEventTypes == {"e1", "e2"}
ScheduleIds == {<<"j">>, <<"j", ":", "k">>}
Crons == {<<"c">>, <<"d">>}
Targets == {"t1"}
ReqTargets == {"t1", "t2"}
Priorities == {0, 1}
TypeIds == {"a1"}
ReqTypeIds == {"a1", "a2"}
RequestIds == {"r1", "r2"}
TransportErrs == {"EOF", "Unavailable", "Canceled"}

EventResults == {[allow |-> TRUE, message |-> ""], [allow |-> FALSE, message |-> "no"]}
Responses == {[Status |-> 200, body |-> "ok"], [Status |-> 500, body |-> "boom"]}
MixinResults ==
    {[action |-> "NEXT", output |-> Nil, err |-> "", modifiedInput |-> Nil,
      notifications |-> <<>>],
     [action |-> "RETURN", output |-> "doc", err |-> "e", modifiedInput |-> "in",
      notifications |-> <<"n1">>]}


(***************************************************************************)
(* Addon install actions and the constructors of the SDK.                  *)
(***************************************************************************)
ActionDownloadFile == 0
ActionExtractArchive == 1
ActionDeleteFile == 2
ActionCreateFolder == 3
ActionWriteFile == 4
ActionRunCommand == 5
ActionProxyToNode == 6

AddonInstallAction(type, url, path, content, command, headers, payload, endpoint) ==
    [Type |-> type, URL |-> url, Path |-> path, Content |-> content,
     Command |-> command, Headers |-> headers, NodePayload |-> payload,
     NodeEndpoint |-> endpoint]

DownloadFile(url, path, headers) ==
    AddonInstallAction(ActionDownloadFile, url, path, Nil, "", headers, Nil, "")

ExtractArchive(path) ==
    AddonInstallAction(ActionExtractArchive, "", path, Nil, "", Nil, Nil, "")

DeleteFile(path) ==
    AddonInstallAction(ActionDeleteFile, "", path, Nil, "", Nil, Nil, "")

CreateFolder(path) ==
    AddonInstallAction(ActionCreateFolder, "", path, Nil, "", Nil, Nil, "")

WriteFile(path, content) ==
    AddonInstallAction(ActionWriteFile, "", path, content, "", Nil, Nil, "")

ProxyToNode(endpoint, payload) ==
    AddonInstallAction(ActionProxyToNode, "", "", Nil, "", Nil, payload, endpoint)

AddonSuccess(message, actions) ==
    [Success |-> TRUE, Error |-> "", Message |-> message, Actions |-> actions]

AddonError(e) ==
    [Success |-> FALSE, Error |-> e, Message |-> "", Actions |-> <<>>]

\* What an addon-type handler can return: results built with the
\* constructors, and results holding AddonInstallAction literals (the only
\* way to a RunCommand action), whose fields the handler sets as it likes.
AddonResults ==
    {AddonError("bad"),
     AddonSuccess("ok", <<DownloadFile("u", "p", "hdr"), ExtractArchive("p")>>),
     AddonSuccess("ok", <<WriteFile("p", "data"), ProxyToNode("ep", "pl"),
                          DeleteFile("p"), CreateFolder("q")>>),
     AddonSuccess("ok", <<AddonInstallAction(ActionRunCommand, "", "", Nil, "cmd",
                                             Nil, Nil, ""),
                          AddonInstallAction(ActionExtractArchive, "u", "p", Nil, "",
                                             Nil, Nil, "")>>)}

(***************************************************************************)
(* Helpers of the dispatch code.                                           *)
(***************************************************************************)
\* splitKey: cut at the first ':'; the whole key and "" when there is none.
RECURSIVE splitFrom(_, _)
splitFrom(key, i) ==
    IF i > Len(key) THEN <<key, <<>>>>
    ELSE IF key[i] = ":" THEN <<SubSeq(key, 1, i - 1), SubSeq(key, i + 1, Len(key))>>
    ELSE splitFrom(key, i + 1)

splitKey(key) == splitFrom(key, 1)

\* Variant: the path must be longer than the pattern's prefix.
matchPath_strictlyLonger(pattern, path) ==
    IF pattern = path THEN TRUE
    ELSE IF Len(pattern) > 0 /\ pattern[Len(pattern)] = "*"
         THEN /\ Len(path) > Len(pattern) - 1
              /\ SubSeq(path, 1, Len(pattern) - 1) = SubSeq(pattern, 1, Len(pattern) - 1)
         ELSE FALSE

\* matchPath: equality, or a pattern ending in '*' whose text before the '*'
\* is the beginning of the path.
matchPath(pattern, path) ==
    IF pattern = path THEN TRUE
    ELSE IF Len(pattern) > 0 /\ pattern[Len(pattern)] = "*"
         THEN /\ Len(path) >= Len(pattern) - 1
              /\ SubSeq(path, 1, Len(pattern) - 1) = SubSeq(pattern, 1, Len(pattern) - 1)
         ELSE FALSE

\* A nil []byte.
NoBytes == <<>>

\* json.Marshal of a handler's document: the bytes of its encoding.
jsonMarshal(doc) == <<"json", doc>>

\* json.Marshal of a map[string]interface{}: the members in sorted key order.
jsonErrorBody(m) == <<<<"error", m>>, <<"success", FALSE>>>>

\* Variant: the body of the JSON helper, success=true.
errorResponse_successBody(status, m) ==
    [Status |-> status, Headers |-> <<<<"Content-Type", "application/json">>>>,
     Body |-> <<<<"error", m>>, <<"success", TRUE>>>>]

errorResponse(status, m) ==
    [Status |-> status, Headers |-> <<<<"Content-Type", "application/json">>>>,
     Body |-> jsonErrorBody(m)]

\* A fresh pb.PluginMessage: its RequestId is the zero value.
PluginMessage(kind, payload) == [kind |-> kind, RequestId |-> "", payload |-> payload]

\* The nil *pb.PluginMessage.
NilMessage == [kind |-> "nil", RequestId |-> "", payload |-> <<>>]

\* What a dispatcher did: its response, and the handlers it invoked with
\* what each returned.
Outcome(resp, invoked) == [resp |-> resp, calls |-> invoked, rets |-> <<>>]

Invoked(resp, handler, ret) == [resp |-> resp, calls |-> <<handler>>, rets |-> <<ret>>]

routeKey(method, path) == method \o COLON \o path

(***************************************************************************)
(* The dispatchers.  Each yields the set of outcomes the call can have: a  *)
(* response message and the handlers it invoked.  `ret` is what the        *)
(* invoked handler returns.  A Go map is ranged over in an unspecified     *)
(* order, so a scan of a map that stops at the first hit can stop at any   *)
(* hit.                                                                    *)
(***************************************************************************)
\* Variant: an event without a handler is blocked.
handleEvent_failClosed(ev, ret) ==
    IF ev.Type \notin DOMAIN events
    THEN {Outcome(PluginMessage("EventResponse", [Allow |-> FALSE, Message |-> ""]), <<>>)}
    ELSE {Invoked(PluginMessage("EventResponse",
                                [Allow |-> ret.allow, Message |-> ret.message]),
                  events[ev.Type], ret)}

handleEvent(ev, ret) ==
    IF ev.Type \notin DOMAIN events
    THEN {Outcome(PluginMessage("EventResponse", [Allow |-> TRUE, Message |-> ""]), <<>>)}
    ELSE {Invoked(PluginMessage("EventResponse",
                                [Allow |-> ret.allow, Message |-> ret.message]),
                  events[ev.Type], ret)}

routeCandidates(req) ==
    {c \in Range(routes) :
        (c.Method = STAR \/ c.Method = req.Method) /\ matchPath(c.Path, req.Path)}

routeInvoke(cfg, ret) ==
    Invoked(PluginMessage("HttpResponse",
                          [Status |-> ret.Status, Headers |-> <<>>, Body |-> ret.body]),
            cfg.Handler, ret)

\* Variant: the scan runs before the exact lookup.
handleHTTP_scanFirst(req, ret) ==
    IF routeCandidates(req) # {}
    THEN {routeInvoke(c, ret) : c \in routeCandidates(req)}
    ELSE {Outcome(PluginMessage("HttpResponse", errorResponse(404, "not found")), <<>>)}

handleHTTP(req, ret) ==
    IF routeKey(req.Method, req.Path) \in DOMAIN routes
    THEN {routeInvoke(routes[routeKey(req.Method, req.Path)], ret)}
    ELSE IF routeCandidates(req) = {}
         THEN {Outcome(PluginMessage("HttpResponse", errorResponse(404, "not found")), <<>>)}
         ELSE {routeInvoke(c, ret) : c \in routeCandidates(req)}

scheduleHits(req) == {k \in DOMAIN schedule : splitKey(k)[1] = req.ScheduleId}

handleSchedule(req) ==
    IF scheduleHits(req) = {}
    THEN {Outcome(PluginMessage("ScheduleResponse", <<>>), <<>>)}
    ELSE {Invoked(PluginMessage("ScheduleResponse", <<>>), schedule[k], <<>>) :
            k \in scheduleHits(req)}

mixinHits(req) == {i \in 1..Len(mixins) : mixins[i].Target = req.Target}

\* Variant: the scan does not stop at the first hit, the last one stays.
firstMixin_noBreak(req) == CHOOSE i \in mixinHits(req) : \A j \in mixinHits(req) : i >= j

firstMixin(req) == CHOOSE i \in mixinHits(req) : \A j \in mixinHits(req) : i <= j

handleMixin(req, ret) ==
    IF mixinHits(req) = {}
    THEN {Outcome(PluginMessage("MixinResponse",
                                [Action |-> "NEXT", Output |-> NoBytes, Error |-> "",
                                 ModifiedInput |-> NoBytes, Notifications |-> <<>>]),
                  <<>>)}
    ELSE {Invoked(PluginMessage("MixinResponse",
                                [Action |-> ret.action,
                                 Output |-> IF ret.output # Nil
                                            THEN jsonMarshal(ret.output) ELSE NoBytes,
                                 Error |-> ret.err,
                                 ModifiedInput |-> IF ret.modifiedInput # Nil
                                                   THEN jsonMarshal(ret.modifiedInput)
                                                   ELSE NoBytes,
                                 Notifications |-> ret.notifications]),
                  mixins[firstMixin(req)].Handler, ret)}

pbAction(a) ==
    [Type |-> a.Type, Url |-> a.URL, Path |-> a.Path, Content |-> a.Content,
     Command |-> a.Command, Headers |-> a.Headers, NodePayload |-> a.NodePayload,
     NodeEndpoint |-> a.NodeEndpoint]

\* Variant: each action is put in front of the ones already converted.
pbActions_prepend(actions) ==
    [i \in 1..Len(actions) |-> pbAction(actions[Len(actions) + 1 - i])]

\* Lines 603-615: the actions converted one by one and appended in turn.
pbActions(actions) == [i \in 1..Len(actions) |-> pbAction(actions[i])]

\* Variant: the error names the type id asked for.
handleAddonType_namesType(req, ret) ==
    IF req.TypeId \notin DOMAIN addonTypes
    THEN {Outcome(PluginMessage("AddonTypeResponse",
                                [Success |-> FALSE, Error |-> req.TypeId,
                                 Message |-> "", Actions |-> <<>>]),
                  <<>>)}
    ELSE {Invoked(PluginMessage("AddonTypeResponse",
                                [Success |-> ret.Success, Error |-> ret.Error,
                                 Message |-> ret.Message,
                                 Actions |-> pbActions(ret.Actions)]),
                  addonTypes[req.TypeId], ret)}

handleAddonType(req, ret) ==
    IF req.TypeId \notin DOMAIN addonTypes
    THEN {Outcome(PluginMessage("AddonTypeResponse",
                                [Success |-> FALSE, Error |-> "addon type handler not found",
                                 Message |-> "", Actions |-> <<>>]),
                  <<>>)}
    ELSE {Invoked(PluginMessage("AddonTypeResponse",
                                [Success |-> ret.Success, Error |-> ret.Error,
                                 Message |-> ret.Message,
                                 Actions |-> pbActions(ret.Actions)]),
                  addonTypes[req.TypeId], ret)}

(***************************************************************************)
(* handleMessage: the payload switch, then the reply.  An effect is what   *)
(* the call writes to the stream, the handlers it ran, and whether it      *)
(* ended the process (os.Exit).                                            *)
(***************************************************************************)
\* Variant: the response goes out with the RequestId it was built with.
reply_keepsZeroId(m, o) ==
    [sent |-> IF o.resp # NilMessage THEN <<o.resp>> ELSE <<>>,
     calls |-> o.calls, rets |-> o.rets, exit |-> FALSE]

reply(m, o) ==
    [sent |-> IF o.resp # NilMessage
              THEN <<[o.resp EXCEPT !.RequestId = m.RequestId]>> ELSE <<>>,
     calls |-> o.calls, rets |-> o.rets, exit |-> FALSE]

\* Variant: the default case ends the process like Shutdown.
handleMessage_unknownExits(m) ==
    CASE m.kind = "Event" ->
            {reply(m, o) : o \in UNION {handleEvent(m.payload, r) : r \in EventResults}}
      [] m.kind = "Http" ->
            {reply(m, o) : o \in UNION {handleHTTP(m.payload, r) : r \in Responses}}
      [] m.kind = "Schedule" ->
            {reply(m, o) : o \in handleSchedule(m.payload)}
      [] m.kind = "Mixin" ->
            {reply(m, o) : o \in UNION {handleMixin(m.payload, r) : r \in MixinResults}}
      [] m.kind = "AddonType" ->
            {reply(m, o) : o \in UNION {handleAddonType(m.payload, r) : r \in AddonResults}}
      [] OTHER ->
            {[sent |-> <<>>, calls |-> <<>>, rets |-> <<>>, exit |-> TRUE]}

handleMessage(m) ==
    CASE m.kind = "Event" ->
            {reply(m, o) : o \in UNION {handleEvent(m.payload, r) : r \in EventResults}}
      [] m.kind = "Http" ->
            {reply(m, o) : o \in UNION {handleHTTP(m.payload, r) : r \in Responses}}
      [] m.kind = "Schedule" ->
            {reply(m, o) : o \in handleSchedule(m.payload)}
      [] m.kind = "Mixin" ->
            {reply(m, o) : o \in UNION {handleMixin(m.payload, r) : r \in MixinResults}}
      [] m.kind = "AddonType" ->
            {reply(m, o) : o \in UNION {handleAddonType(m.payload, r) : r \in AddonResults}}
      [] m.kind = "Shutdown" ->
            {[sent |-> <<>>, calls |-> <<>>, rets |-> <<>>, exit |-> TRUE]}
      [] OTHER ->
            {[sent |-> <<>>, calls |-> <<>>, rets |-> <<>>, exit |-> FALSE]}

(***************************************************************************)
(* The envelopes the panel can send.                                       *)
(***************************************************************************)
PanelMessage(kind, id, payload) == [kind |-> kind, RequestId |-> id, payload |-> payload]

Payloads ==
    {<<"Event", [Type |-> t]>> : t \in ReqEventTypes}
    \cup {<<"Http", [Method |-> m, Path |-> p]>> : m \in ReqMethods, p \in ReqPaths}
    \cup {<<"Schedule", [ScheduleId |-> i]>> : i \in ScheduleIds}
    \cup {<<"Mixin", [Target |-> t]>> : t \in ReqTargets}
    \cup {<<"AddonType", [TypeId |-> t]>> : t \in ReqTypeIds}
    \cup {<<"Shutdown", <<>>>>, <<"Registered", <<>>>>, <<"Unknown", <<>>>>}
    \cup {<<"Response", <<>>>>}

Inbound == {PanelMessage(p[1], id, p[2]) : p \in Payloads, id \in RequestIds}

ReplyKinds == {"Event", "Http", "Schedule", "Mixin", "AddonType"}


(***************************************************************************)
(* The builder calls.  The handler passed to the n-th builder call is the  *)
(* value n, so handlers are told apart and carry their registration order. *)
(***************************************************************************)
Building == pc = "build" /\ nreg < MaxRegs

Unstarted == UNCHANGED <<pc, hs, msg, err, out, calls, rets, hookRuns, result, mp, pending, waiting>>

OnStart ==
    /\ Building
    /\ onStart' = nreg + 1
    /\ nreg' = nreg + 1
    /\ UNCHANGED <<events, routes, schedule, mixins, addonTypes>>
    /\ Unstarted

\* Variant: a type that already has a handler keeps it.
OnEvent_keepsFirst ==
    /\ Building
    /\ \E eventType \in EventTypes :
          events' = IF eventType \in DOMAIN events
                    THEN events
                    ELSE Put(events, eventType, nreg + 1)
    /\ nreg' = nreg + 1
    /\ UNCHANGED <<routes, schedule, mixins, addonTypes, onStart>>
    /\ Unstarted

\* Lines 228-231: the handler is stored under its event type, replacing the
\* one stored there before.
OnEvent ==
    /\ Building
    /\ \E eventType \in EventTypes :
          events' = Put(events, eventType, nreg + 1)
    /\ nreg' = nreg + 1
    /\ UNCHANGED <<routes, schedule, mixins, addonTypes, onStart>>
    /\ Unstarted

RouteConfig(method, path, handler) ==
    [Method |-> method, Path |-> path, Handler |-> handler]

Route ==
    /\ Building
    /\ \E method \in RouteMethods, path \in RoutePaths :
          routes' = Put(routes, routeKey(method, path), RouteConfig(method, path, nreg + 1))
    /\ nreg' = nreg + 1
    /\ UNCHANGED <<events, schedule, mixins, addonTypes, onStart>>
    /\ Unstarted

Schedule ==
    /\ Building
    /\ \E id \in ScheduleIds, cron \in Crons :
          schedule' = Put(schedule, id \o COLON \o cron, nreg + 1)
    /\ nreg' = nreg + 1
    /\ UNCHANGED <<events, routes, mixins, addonTypes, onStart>>
    /\ Unstarted

MixinRegistration(target, priority, handler) ==
    [Target |-> target, Priority |-> priority, Handler |-> handler]

MixinWithPriority ==
    /\ Building
    /\ \E target \in Targets, priority \in Priorities :
          mixins' = Append(mixins, MixinRegistration(target, priority, nreg + 1))
    /\ nreg' = nreg + 1
    /\ UNCHANGED <<events, routes, schedule, addonTypes, onStart>>
    /\ Unstarted

AddonType ==
    /\ Building
    /\ \E typeID \in TypeIds :
          addonTypes' = Put(addonTypes, typeID, nreg + 1)
    /\ nreg' = nreg + 1
    /\ UNCHANGED <<events, routes, schedule, mixins, onStart>>
    /\ Unstarted

(***************************************************************************)
(* Plugin.Start.                                                           *)
(***************************************************************************)
\* int32(x) of an int: the value itself from -2^31 to 2^31 - 1, which is
\* every integer TLC represents.
int32(x) == x

\* The orders in which a range over a map with these keys can visit them.
Orders(keys) ==
    {o \in [1..Cardinality(keys) -> keys] :
        \A i, j \in 1..Cardinality(keys) : i # j => o[i] # o[j]}

scheduleInfo(key) == [Id |-> splitKey(key)[1], Cron |-> splitKey(key)[2]]

\* buildInfo: the lists of the registration.  Each list made from a map is
\* in the order its range visited the keys; the mixins are in slice order.
buildInfo ==
    {[Events |-> e,
      Routes |-> [i \in 1..Len(r) |-> [Method |-> routes[r[i]].Method,
                                       Path |-> routes[r[i]].Path]],
      Schedules |-> [i \in 1..Len(sc) |-> scheduleInfo(sc[i])],
      Mixins |-> [i \in 1..Len(mixins) |->
                    [Target |-> mixins[i].Target, Priority |-> int32(mixins[i].Priority)]],
      AddonTypes |-> a] :
        e \in Orders(DOMAIN events), r \in Orders(DOMAIN routes),
        sc \in Orders(DOMAIN schedule), a \in Orders(DOMAIN addonTypes)}

RegisterMessage(info) == PluginMessage("Register", info)

\* Dial, open the stream, send the registration: each can fail, and Start
\* returns that error.
StartConnect ==
    /\ pc = "build"
    /\ \E e \in {"nil", "Unavailable"}, sendErr \in {"nil", "Unavailable"},
          info \in buildInfo :
          IF e # "nil"
          THEN pc' = "returned" /\ result' = e /\ out' = out
          ELSE IF sendErr # "nil"
               THEN pc' = "returned" /\ result' = sendErr /\ out' = out
               ELSE /\ pc' = "handshake"
                    /\ result' = result
                    /\ out' = <<RegisterMessage(info)>>
    /\ UNCHANGED <<registry, hs, msg, err, calls, rets, hookRuns, mp, pending, waiting>>

\* What a stream.Recv can yield: an envelope and no error, or no envelope
\* and an error (io.EOF when the panel closed the stream).
Received ==
    {[msg |-> m, err |-> "nil"] : m \in Inbound}
    \cup {[msg |-> NoMsg, err |-> e] : e \in TransportErrs}

\* The first reply is read before any request was made: it carries one
\* request id.
FirstReplies == {r \in Received : r.err = "nil" => r.msg.RequestId = "r1"}

\* Variant: any first reply is taken for the acknowledgement.
handshake_anyReply(r) ==
    IF r.err # "nil" THEN [pc |-> "returned", result |-> r.err]
    ELSE [pc |-> "connected", result |-> "running"]

\* Lines 363-369: where Start goes after the first Recv, and what it
\* returns when it returns.  `return err` after the GetRegistered test
\* returns the err of the Recv, which is nil there.
handshake(r) ==
    IF r.err # "nil" THEN [pc |-> "returned", result |-> r.err]
    ELSE IF r.msg.kind # "Registered" THEN [pc |-> "returned", result |-> r.err]
    ELSE [pc |-> "connected", result |-> "running"]

Handshake ==
    /\ pc = "handshake"
    /\ \E r \in FirstReplies :
          /\ hs' = r
          /\ pc' = handshake(r).pc
          /\ result' = handshake(r).result
    /\ UNCHANGED <<registry, msg, err, out, calls, rets, hookRuns, mp, pending, waiting>>

\* Variant: the loop is entered without the hook being called.
CallOnStart_skipsHook ==
    /\ pc = "connected"
    /\ pc' = "loop"
    /\ UNCHANGED <<registry, hs, msg, err, out, calls, rets, hookRuns, result, mp, pending, waiting>>

\* Lines 373-376: the start hook, when one is set, is called and Start waits
\* for it.
CallOnStart ==
    /\ pc = "connected"
    /\ IF onStart # NoHandler
       THEN pc' = "hook" /\ hookRuns' = hookRuns + 1
       ELSE pc' = "loop" /\ hookRuns' = hookRuns
    /\ UNCHANGED <<registry, hs, msg, err, out, calls, rets, result, mp, pending, waiting>>

OnStartReturns ==
    /\ pc = "hook"
    /\ pc' = "loop"
    /\ UNCHANGED <<registry, hs, msg, err, out, calls, rets, hookRuns, result, mp, pending, waiting>>

\* Variant: io.EOF is returned like any other error.
recvLoop_eofIsError(e) ==
    IF e # "nil" THEN [pc |-> "returned", result |-> e]
    ELSE [pc |-> "handling", result |-> "running"]

\* Lines 379-387: what Start does with the loop's Recv.
recvLoop(e) ==
    IF e = "EOF" THEN [pc |-> "returned", result |-> "nil"]
    ELSE IF e # "nil" THEN [pc |-> "returned", result |-> e]
    ELSE [pc |-> "handling", result |-> "running"]

Recv ==
    /\ pc = "loop"
    /\ \E r \in Received :
          /\ msg' = r.msg
          /\ err' = r.err
          /\ pc' = recvLoop(r.err).pc
          /\ result' = recvLoop(r.err).result
    /\ out' = <<>>
    /\ calls' = <<>>
    /\ rets' = <<>>
    /\ UNCHANGED <<registry, hs, hookRuns, mp, pending, waiting>>

\* Variant: a schedule is dropped from the registry once it was triggered.
HandleMessage_oneShotSchedule ==
    /\ pc = "handling"
    /\ \E eff \in handleMessage(msg) :
          /\ out' = out \o eff.sent
          /\ calls' = calls \o eff.calls
          /\ rets' = rets \o eff.rets
          /\ pc' = IF eff.exit THEN "exited" ELSE "loop"
    /\ schedule' = IF msg.kind = "Schedule" THEN EmptyMap ELSE schedule
    /\ UNCHANGED <<events, routes, mixins, addonTypes, onStart, nreg>>
    /\ UNCHANGED <<hs, msg, err, hookRuns, result, mp, pending, waiting>>

HandleMessage ==
    /\ pc = "handling"
    /\ \E eff \in handleMessage(msg) :
          /\ out' = out \o eff.sent
          /\ calls' = calls \o eff.calls
          /\ rets' = rets \o eff.rets
          /\ pc' = IF eff.exit THEN "exited" ELSE "loop"
    /\ UNCHANGED <<registry, hs, msg, err, hookRuns, result, mp, pending, waiting>>

NoMatch == [pattern |-> <<>>, path |-> <<>>, done |-> FALSE, matched |-> FALSE]

Init ==
    /\ pc = "build"
    /\ events = EmptyMap
    /\ routes = EmptyMap
    /\ schedule = EmptyMap
    /\ mixins = <<>>
    /\ addonTypes = EmptyMap
    /\ onStart = NoHandler
    /\ nreg = 0
    /\ hs = [msg |-> NoMsg, err |-> "nil"]
    /\ msg = NoMsg
    /\ err = "nil"
    /\ out = <<>>
    /\ calls = <<>>
    /\ rets = <<>>
    /\ hookRuns = 0
    /\ result = "running"
    /\ pending = EmptyMap
    /\ waiting = EmptyMap
    /\ mp = NoMatch

Next ==
    \/ OnStart
    \/ OnEvent
    \/ Route
    \/ Schedule
    \/ MixinWithPriority
    \/ AddonType
    \/ StartConnect
    \/ Handshake
    \/ CallOnStart
    \/ OnStartReturns
    \/ Recv
    \/ HandleMessage

Spec == Init /\ [][Next]_vars

(***************************************************************************)
(* matchPath on its own: every pattern and path up to MaxLen characters    *)
(* over Alphabet, and the strings of the documented examples.              *)
(***************************************************************************)
MatchInputs == Strs \cup Examples

MatchPath ==
    /\ ~mp.done
    /\ mp' = [mp EXCEPT !.done = TRUE, !.matched = matchPath(mp.pattern, mp.path)]
    /\ UNCHANGED <<pc, registry, hs, msg, err, out, calls, rets, hookRuns, result>>
    /\ UNCHANGED <<pending, waiting>>

InitMatch ==
    /\ pc = "build"
    /\ events = EmptyMap
    /\ routes = EmptyMap
    /\ schedule = EmptyMap
    /\ mixins = <<>>
    /\ addonTypes = EmptyMap
    /\ onStart = NoHandler
    /\ nreg = 0
    /\ hs = [msg |-> NoMsg, err |-> "nil"]
    /\ msg = NoMsg
    /\ err = "nil"
    /\ out = <<>>
    /\ calls = <<>>
    /\ rets = <<>>
    /\ hookRuns = 0
    /\ result = "running"
    /\ pending = EmptyMap
    /\ waiting = EmptyMap
    /\ mp \in {[pattern |-> p, path |-> s, done |-> FALSE, matched |-> FALSE] :
                 p \in MatchInputs, s \in MatchInputs}

NextMatch == MatchPath

SpecMatch == InitMatch /\ [][NextMatch]_vars


(***************************************************************************)
(* Vocabulary of the properties.                                           *)
(***************************************************************************)
\* The envelope in msg has been dispatched and Start is about to read again.
Dispatched(kind) == pc = "loop" /\ msg.kind = kind

\* The first reply was not an acknowledgement, or the first Recv failed.
HandshakeFailed == hs.err # "nil" \/ hs.msg.kind \notin {"none", "Registered"}

Acknowledged == hs.err = "nil" /\ hs.msg.kind = "Registered"

\* The route matcher rule as the design states it.
PatternMatches(pattern, path) ==
    \/ pattern = path
    \/ \E k \in 0..Len(path) : pattern = SubSeq(path, 1, k) \o STAR

ExactRoutes(req) ==
    {c \in Range(routes) : c.Method = req.Method /\ c.Path = req.Path}

ScanRoutes(req) ==
    {c \in Range(routes) :
        (c.Method = STAR \/ c.Method = req.Method) /\ PatternMatches(c.Path, req.Path)}

WildcardRoutes(req) == {c \in ScanRoutes(req) : c.Path # req.Path}

IsNotFound(m) ==
    /\ m.kind = "HttpResponse"
    /\ m.payload.Status = 404
    /\ Len(m.payload.Body) = 2
    /\ \E i, j \in 1..2 :
          /\ m.payload.Body[i][1] = "success" /\ m.payload.Body[i][2] = FALSE
          /\ m.payload.Body[j][1] = "error" /\ m.payload.Body[j][2] = "not found"

\* C1: an Event, HTTP request, Schedule trigger, Mixin call or Addon-type
\* call received in the Connected state is answered by exactly one envelope
\* carrying its request id, written before the next read; a Shutdown or an
\* unrecognized envelope is answered by none.
C1_ExactlyOneReply ==
    /\ pc = "handling" => out = <<>>
    /\ (pc = "loop" /\ msg.kind \in ReplyKinds) =>
          /\ Len(out) = 1
          /\ out[1].RequestId = msg.RequestId
          /\ out[1].kind # "Register"
    /\ (pc \in {"loop", "exited"} /\ msg.kind \notin ReplyKinds \cup {"none"}) =>
          out = <<>>

C1_Witness ==
    /\ Dispatched("Http")
    /\ msg.RequestId = "r2"
    /\ Len(out) = 1
    /\ calls # <<>>

\* C2: after a failed handshake the lifecycle is never Connected: Start has
\* returned, the start hook has not run, no envelope was dispatched to a
\* handler and nothing but the registration was sent.
C2_FailedHandshakeNeverConnects ==
    HandshakeFailed =>
        /\ pc = "returned"
        /\ hookRuns = 0
        /\ msg = NoMsg
        /\ calls = <<>>
        /\ Len(out) = 1
        /\ out[1].kind = "Register"

C2_Witness ==
    /\ hs.err = "nil"
    /\ hs.msg.kind = "Http"
    /\ onStart # NoHandler
    /\ pc = "returned"

\* C3: every handshake failure makes Start end with an error.
C3_HandshakeFailureIsError ==
    HandshakeFailed => result \notin {"nil", "running"}

\* C4: in the Connected state an end-of-stream makes Start return no error,
\* any other transport error makes Start return that error, and once Start
\* has returned nothing more is received or sent.
C4_LoopExit ==
    [][/\ (pc = "loop" /\ err' # "nil") =>
              /\ pc' = "returned"
              /\ result' = IF err' = "EOF" THEN "nil" ELSE err'
       /\ pc = "returned" => UNCHANGED <<pc, msg, err, out, calls, result>>]_vars

C4_Witness ==
    /\ Acknowledged
    /\ pc = "returned"
    /\ err = "EOF"
    /\ result = "nil"

\* C5: a request whose method and path are those of a registered route runs
\* that route's handler, and no other, also when wildcard routes match it.
C5_ExactBeatsWildcard ==
    Dispatched("Http") =>
        \A c \in ExactRoutes(msg.payload) : calls = <<c.Handler>>

C5_Witness ==
    /\ Dispatched("Http")
    /\ \E c \in ExactRoutes(msg.payload), w \in WildcardRoutes(msg.payload) :
          w.Handler < c.Handler /\ calls = <<c.Handler>>

\* C6: matchPath(pattern, path) holds exactly when the pattern is the path,
\* or ends in '*' and the path begins with the pattern less that '*';
\* /api/* matches /api/, /api/x and /api/x/y and does not match /ap.
C6_MatchPath ==
    mp.done =>
        /\ mp.matched <=> PatternMatches(mp.pattern, mp.path)
        /\ (mp.pattern = apiAll /\ mp.path \in {apiRoot, apiX, apiXY}) => mp.matched
        /\ (mp.pattern = apiAll /\ mp.path = apShort) => ~mp.matched

C6_Witness ==
    /\ mp.done
    /\ mp.pattern = apiAll
    /\ mp.path = apiXY
    /\ mp.matched

\* C7: with no exact match and two or more routes matching, the handler run
\* is that of the matching route registered first.
C7_FirstRegisteredWildcard ==
    (/\ Dispatched("Http")
     /\ ExactRoutes(msg.payload) = {}
     /\ Cardinality(ScanRoutes(msg.payload)) >= 2) =>
        \E c \in ScanRoutes(msg.payload) :
            /\ \A d \in ScanRoutes(msg.payload) : c.Handler <= d.Handler
            /\ calls = <<c.Handler>>

\* C8: a request no route matches runs no handler and is answered 404 with
\* the document success=false, error="not found"; with POST /items and
\* GET /items/* registered, GET /items/42 runs the wildcard route's handler,
\* POST /items the exact route's, and DELETE /items gets the 404.
ItemsRegistry ==
    DOMAIN routes = {routeKey(POST, pItems), routeKey(GET, pItemsAll)}

C8_NotFound ==
    Dispatched("Http") =>
        /\ ScanRoutes(msg.payload) = {} =>
              calls = <<>> /\ Len(out) = 1 /\ IsNotFound(out[1])
        /\ ItemsRegistry =>
              /\ msg.payload = [Method |-> GET, Path |-> pItems42] =>
                    calls = <<routes[routeKey(GET, pItemsAll)].Handler>>
              /\ msg.payload = [Method |-> POST, Path |-> pItems] =>
                    calls = <<routes[routeKey(POST, pItems)].Handler>>
              /\ msg.payload = [Method |-> DELETE, Path |-> pItems] =>
                    calls = <<>> /\ Len(out) = 1 /\ IsNotFound(out[1])

C8_Witness ==
    /\ Dispatched("Http")
    /\ ItemsRegistry
    /\ msg.payload = [Method |-> DELETE, Path |-> pItems]
    /\ IsNotFound(out[1])

\* C9: an Event whose type has no handler is answered allow=true with an
\* empty message, a Mixin call whose target has no handler is answered with
\* the next verdict and no output, modified input, error or notification;
\* neither runs a handler.
C9_FailOpen ==
    /\ (Dispatched("Event") /\ msg.payload.Type \notin DOMAIN events) =>
          /\ calls = <<>>
          /\ Len(out) = 1
          /\ out[1].payload = [Allow |-> TRUE, Message |-> ""]
    /\ (Dispatched("Mixin")
        /\ \A i \in 1..Len(mixins) : mixins[i].Target # msg.payload.Target) =>
          /\ calls = <<>>
          /\ Len(out) = 1
          /\ out[1].payload.Action = "NEXT"
          /\ out[1].payload.Output = NoBytes
          /\ out[1].payload.ModifiedInput = NoBytes
          /\ out[1].payload.Error = ""
          /\ out[1].payload.Notifications = <<>>

C9_Witness ==
    /\ Dispatched("Event")
    /\ msg.payload.Type \notin DOMAIN events
    /\ DOMAIN events # {}
    /\ Len(out) = 1

\* C10: a Mixin call runs the handler registered first for its target,
\* once, and none registered later, whatever the priorities are.
C10_FirstMixinWins ==
    Dispatched("Mixin") =>
        \A i \in 1..Len(mixins) :
            (/\ mixins[i].Target = msg.payload.Target
             /\ \A j \in 1..(i - 1) : mixins[j].Target # msg.payload.Target) =>
                calls = <<mixins[i].Handler>>

C10_Witness ==
    /\ Dispatched("Mixin")
    /\ Len(mixins) >= 2
    /\ mixins[1].Target = msg.payload.Target
    /\ mixins[2].Target = msg.payload.Target
    /\ mixins[1].Priority < mixins[2].Priority
    /\ calls = <<mixins[1].Handler>>

\* C11: an Addon-type call whose type id has no handler runs no handler and
\* is answered success=false with one fixed, non-empty error text and no
\* actions.
AddonNotFound == "addon type handler not found"

C11_AddonTypeNotFound ==
    (Dispatched("AddonType") /\ msg.payload.TypeId \notin DOMAIN addonTypes) =>
        /\ calls = <<>>
        /\ Len(out) = 1
        /\ out[1].payload.Success = FALSE
        /\ out[1].payload.Error = AddonNotFound
        /\ AddonNotFound # ""
        /\ out[1].payload.Actions = <<>>

C11_Witness ==
    /\ Dispatched("AddonType")
    /\ msg.payload.TypeId = "a2"
    /\ DOMAIN addonTypes = {"a1"}
    /\ Len(out) = 1

\* C12: the response to an Addon-type call with a handler lists as many
\* actions as the handler returned, the i-th with the type of the handler's
\* i-th.
C12_ActionOrder ==
    (Dispatched("AddonType") /\ msg.payload.TypeId \in DOMAIN addonTypes) =>
        /\ Len(out) = 1
        /\ Len(rets) = 1
        /\ Len(out[1].payload.Actions) = Len(rets[1].Actions)
        /\ \A i \in 1..Len(rets[1].Actions) :
              out[1].payload.Actions[i].Type = rets[1].Actions[i].Type

C12_Witness ==
    /\ Dispatched("AddonType")
    /\ Len(rets) = 1
    /\ Len(rets[1].Actions) = 4
    /\ \A i, j \in 1..4 : i # j => rets[1].Actions[i].Type # rets[1].Actions[j].Type
    /\ Len(out[1].payload.Actions) = 4

\* The handlers registered with Schedule(id, cron, handler) for one id.
RegisteredUnder(id) ==
    {schedule[id \o COLON \o c] : c \in {d \in Crons : id \o COLON \o d \in DOMAIN schedule}}

\* C13: a Schedule trigger carrying a registered id runs one handler
\* registered under that id, once, a trigger carrying an id never registered
\* runs none, and both are answered with an empty acknowledgement.
C13_ScheduleRunsItsHandler ==
    Dispatched("Schedule") =>
        /\ Len(out) = 1
        /\ out[1].kind = "ScheduleResponse"
        /\ out[1].payload = <<>>
        /\ IF RegisteredUnder(msg.payload.ScheduleId) = {}
           THEN calls = <<>>
           ELSE \E h \in RegisteredUnder(msg.payload.ScheduleId) : calls = <<h>>

\* The members of a list, and whether it lists each member of a set once.
Members(list) == {list[i] : i \in 1..Len(list)}

ListsOnce(list, set) == Members(list) = set /\ Len(list) = Cardinality(set)

\* The (id, cron) pairs Schedule was called with and that are still held.
RegisteredSchedules ==
    {p \in {[Id |-> i, Cron |-> c] : i \in ScheduleIds, c \in Crons} :
        p.Id \o COLON \o p.Cron \in DOMAIN schedule}

\* C19: the registration lists each registered event type once, each
\* registered (method, path) once, each schedule with the id and the cron
\* expression it was registered with, the mixin registrations with target
\* and priority in registration order, and each addon-type id once.
C19_RegistrationListsSurface ==
    (pc = "handshake") =>
        /\ Len(out) = 1
        /\ out[1].kind = "Register"
        /\ ListsOnce(out[1].payload.Events, DOMAIN events)
        /\ ListsOnce(out[1].payload.Routes,
                     {[Method |-> c.Method, Path |-> c.Path] : c \in Range(routes)})
        /\ ListsOnce(out[1].payload.Schedules, RegisteredSchedules)
        /\ out[1].payload.Mixins =
              [i \in 1..Len(mixins) |->
                 [Target |-> mixins[i].Target, Priority |-> mixins[i].Priority]]
        /\ ListsOnce(out[1].payload.AddonTypes, DOMAIN addonTypes)

\* C16: with a start hook set and the handshake acknowledged, the hook is
\* called once, after the acknowledgement and before the first receive of
\* the loop; nothing is received or dispatched while it runs, and it is not
\* called again for later envelopes.
C16_HookOnce ==
    /\ ~Acknowledged => hookRuns = 0
    /\ pc \in {"connected", "hook"} => msg = NoMsg /\ err = "nil" /\ calls = <<>>
    /\ (Acknowledged /\ onStart # NoHandler) =>
          /\ pc = "connected" => hookRuns = 0
          /\ pc \in {"hook", "loop", "handling", "returned", "exited"} => hookRuns = 1

C16_Witness ==
    /\ Dispatched("Event")
    /\ calls # <<>>
    /\ onStart # NoHandler
    /\ hookRuns = 1

\* C17: the lifecycle leaves Connected only on end-of-stream, on a transport
\* error of a receive or on a Shutdown envelope; after an unrecognized
\* envelope or a dispatched call it is back at the receive, which takes the
\* next envelope to the dispatch.
C17_StaysConnected ==
    /\ [](pc = "loop" => ENABLED Recv)
    /\ [][/\ (pc = "handling" /\ msg.kind # "Shutdown") => pc' = "loop"
          /\ (pc = "loop" /\ err' = "nil") => pc' = "handling" /\ msg' \in Inbound
          /\ (pc \in {"loop", "handling"} /\ pc' \notin {"loop", "handling"}) =>
                \/ pc = "loop" /\ err' \in TransportErrs /\ pc' = "returned"
                \/ pc = "handling" /\ msg.kind = "Shutdown" /\ pc' = "exited"]_vars

C17_Witness ==
    /\ Dispatched("Unknown")
    /\ out = <<>>

\* C18: dispatching an envelope leaves the event, route, schedule, mixin and
\* addon-type collections as they were.
C18_RegistryReadOnly ==
    [][(pc = "loop" \/ pc = "handling") =>
          UNCHANGED <<events, routes, schedule, mixins, addonTypes>>]_vars

C18_Witness ==
    /\ Dispatched("Schedule")
    /\ calls # <<>>
    /\ DOMAIN schedule # {}

\* C20: each action of the response carries the fields of its type as the
\* handler set them and every other field at its zero value.
WireFields == {"Url", "Path", "Content", "Command", "Headers", "NodePayload", "NodeEndpoint"}

RelevantFields(t) ==
    CASE t = ActionDownloadFile -> {"Url", "Path", "Headers"}
      [] t \in {ActionExtractArchive, ActionDeleteFile, ActionCreateFolder} -> {"Path"}
      [] t = ActionWriteFile -> {"Path", "Content"}
      [] t = ActionRunCommand -> {"Command"}
      [] t = ActionProxyToNode -> {"NodeEndpoint", "NodePayload"}

ZeroValue(f) == IF f \in {"Content", "Headers", "NodePayload"} THEN Nil ELSE ""

HandlerField(f) == IF f = "Url" THEN "URL" ELSE f

C20_OnlyRelevantFields ==
    (Dispatched("AddonType") /\ Len(rets) = 1) =>
        \A i \in 1..Len(out[1].payload.Actions) :
            \A f \in WireFields :
                out[1].payload.Actions[i][f] =
                    IF f \in RelevantFields(out[1].payload.Actions[i].Type)
                    THEN rets[1].Actions[i][HandlerField(f)]
                    ELSE ZeroValue(f)

(***************************************************************************)
(* The correlation table.  Plugin.pending (line 173) maps a correlation id *)
(* to the channel an outbound call waits on; New makes it empty (line      *)
(* 208).  The calls toward the panel are made by the capability facilities *)
(* of the SDK: one records its channel under a fresh correlation id, sends *)
(* its request and blocks on the channel.  Start, the receive loop and     *)
(* handleMessage are the only other code that could touch the table, and   *)
(* they do not.                                                            *)
(***************************************************************************)
Callers == {"A", "B"}

\* What a released caller reads from its channel when the connection closed.
ConnectionClosed == [kind |-> "closed"]

Blocked(c) == c \in DOMAIN waiting /\ waiting[c] = NoMsg

\* An outbound call: a correlation id not in the table, the caller's channel
\* recorded under it, the caller blocked on the channel.
Call ==
    /\ pc \in {"hook", "loop", "handling"}
    /\ \E c \in Callers \ DOMAIN waiting, id \in RequestIds \ DOMAIN pending :
          /\ pending' = Put(pending, id, c)
          /\ waiting' = Put(waiting, c, NoMsg)
    /\ UNCHANGED <<pc, registry, hs, msg, err, out, calls, rets, hookRuns, result, mp>>

NextCorr ==
    \/ OnStart
    \/ StartConnect
    \/ Handshake
    \/ CallOnStart
    \/ OnStartReturns
    \/ Recv
    \/ HandleMessage
    \/ Call

SpecCorr == Init /\ [][NextCorr]_vars

\* The connection was established and Start has returned or the process has
\* exited.
Closed == Acknowledged /\ pc \in {"returned", "exited"}

\* C14: once the connection is closed (end of stream, transport error or
\* Shutdown), the correlation table is empty and no caller is blocked: every
\* caller has read its response or the connection-closed failure.
C14_PendingReleasedOnClose ==
    Closed =>
        /\ DOMAIN pending = {}
        /\ \A c \in DOMAIN waiting :
              /\ ~Blocked(c)
              /\ waiting[c].kind \in {"Response", "closed"}

\* C15: when the loop has handled a response envelope whose correlation id
\* is in the table, the entry is gone, the caller that registered the id has
\* read that envelope, every other caller is as it was, and the envelope went
\* through no handler and produced no reply.
C15_ResponseReachesItsCaller ==
    [][(/\ pc = "handling"
        /\ msg.kind = "Response"
        /\ msg.RequestId \in DOMAIN pending
        /\ pc' # "handling") =>
            /\ msg.RequestId \notin DOMAIN pending'
            /\ waiting'[pending[msg.RequestId]] = msg
            /\ \A c \in DOMAIN waiting \ {pending[msg.RequestId]} :
                  waiting'[c] = waiting[c]
            /\ out' = out
            /\ calls' = calls]_vars

\* A builder call that was an OnEvent: it is the one builder call that
\* leaves every other part of the registry as it was.
OnEventCall ==
    /\ nreg' = nreg + 1
    /\ UNCHANGED <<routes, schedule, mixins, addonTypes, onStart>>

\* C21: every OnEvent call puts its handler under its event type in place of
\* the handler registered there before, so the table holds the handler of
\* the last registration of each type; and an Event of a registered type
\* invokes the handler in the table, only it and once, and the one response
\* carries the verdict and message that handler returned, unchanged.
C21_LastEventHandlerWins ==
    /\ [][OnEventCall => \E t \in EventTypes : events' = Put(events, t, nreg')]_vars
    /\ []((Dispatched("Event") /\ msg.payload.Type \in DOMAIN events) =>
            /\ calls = <<events[msg.payload.Type]>>
            /\ Len(rets) = 1
            /\ Len(out) = 1
            /\ out[1].kind = "EventResponse"
            /\ out[1].payload = [Allow |-> rets[1].allow, Message |-> rets[1].message])

\* Two OnEvent calls for one type and no other registration; an Event of
\* that type ran the second handler, which refused it.
C21_Witness ==
    /\ Dispatched("Event")
    /\ msg.payload.Type \in DOMAIN events
    /\ nreg = 2
    /\ onStart = NoHandler
    /\ DOMAIN routes = {} /\ DOMAIN schedule = {} /\ DOMAIN addonTypes = {}
    /\ mixins = <<>>
    /\ calls = <<2>>
    /\ rets = <<[allow |-> FALSE, message |-> "no"]>>
    /\ out[1].payload = [Allow |-> FALSE, Message |-> "no"]

====
